---- MODULE Spec2Model ----
(***************************************************************************)
(* V3Udp.cpp: UdpVisitor, the pass that lowers the table of a user-defined *)
(* primitive into a field assignment and a process holding a chain of      *)
(* conditionals.                                                           *)
(*                                                                         *)
(* The traversal is depth first.  The input tree is revealed child by      *)
(* child: the choice of the next child (a variable, the table, a table     *)
(* line, the next primitive) is the input of the step that visits it.      *)
(* visit(AstPrimitive) and visit(AstUdpTable) call iterateChildren() in    *)
(* the middle of their bodies, so each is an entry step, the nested visits *)
(* of the children, and an exit step; pc is the position of the traversal. *)
(***************************************************************************)
EXTENDS Integers, Sequences, FiniteSets, TLC

\* ------------------------------------------------------------------ bounds
\* Nodes of the input tree: primitives, variables, table lines and the input
\* symbols of the lines.
MaxNodes == 7

\* --------------------------------------------------------------- constants
\* V3Number's unknown bit, onum.setBit(0, 'x')
BitX == 2

\* nullptr, and the value read through an out-of-range vector access
Null == <<0, 0>>
Garbage == <<0, 1>>

\* The literal names of table symbols (AstUdpTableLineVal::name()), as
\* sequences of characters.
InputSyms == {<<"0">>, <<"1">>, <<"?">>}
OutputSyms == {<<"0">>, <<"1">>, <<"x">>}

\* Direction and data type of a variable declared in a primitive:
\* dir "none" is a non-I/O local; dtype "other" is a child dtype that is no
\* AstBasicDType.
VarKinds ==
    {[dir |-> "input", dtype |-> "bit"],
     [dir |-> "output", dtype |-> "bit"],
     [dir |-> "output", dtype |-> "logic"],
     [dir |-> "output", dtype |-> "other"],
     [dir |-> "none", dtype |-> "bit"]}

VARIABLES
    pc,               \* position of the traversal
    netlist,          \* netlist[p]: the children of primitive p, as they are now
    orig,             \* orig[p]: the children of primitive p as parsed
    lines,            \* lines[p]: the rows of p's table, in declaration order
    diags,            \* the diagnostic sink: records [code, at]
    m_primp,
    m_isFirstOutput,
    m_inputVars,
    m_outputVars,
    outSlot0,         \* storage of m_outputVars at index 0; clear() keeps it
    m_inputNum,
    m_outputNum,
    m_ifieldVarp,
    m_ofieldVarp,
    m_lineStmtp,
    m_alwaysp,
    ifieldStmtp,      \* local of visit(AstUdpTable), live across iterateChildren
    ifs,              \* the AstIf nodes: id -> [condp, thensp, elsesp]
    alwaysStmts       \* the body of the AstAlways of primitive p

vars ==
    <<pc, netlist, orig, lines, diags, m_primp, m_isFirstOutput, m_inputVars,
      m_outputVars, outSlot0, m_inputNum, m_outputNum, m_ifieldVarp,
      m_ofieldVarp, m_lineStmtp, m_alwaysp, ifieldStmtp, ifs, alwaysStmts>>

\* ----------------------------------------------------------------- helpers
RECURSIVE SumLens(_)
SumLens(ss) == IF ss = <<>> THEN 0 ELSE Len(Head(ss)) + SumLens(Tail(ss))
RECURSIVE SumSeqs(_)
SumSeqs(ss) == IF ss = <<>> THEN <<>> ELSE Head(ss) \o SumSeqs(Tail(ss))

\* Nodes of the input tree revealed so far: the children of the primitives
\* (a table counts for its primitive), and a line with its input symbols.
RECURSIVE LineNodes(_)
LineNodes(rows) ==
    IF rows = <<>> THEN 0
    ELSE 1 + Len(Head(rows).ifield) + LineNodes(Tail(rows))
NumNodes == SumLens(orig) + Cardinality({p \in 1..Len(orig) :
                \A i \in 1..Len(orig[p]) : orig[p][i].type # "UdpTable"})
            + LineNodes(SumSeqs(lines))

\* Position of the child with this id and type in a child list (0: none).
PosOf(children, type, id) ==
    LET S == {i \in 1..Len(children) :
                 children[i].type = type /\ children[i].id = id}
    IN IF S = {} THEN 0 ELSE CHOOSE i \in S : TRUE

\* The declaration of variable v.
VarDecl(v) == orig[v[1]][v[2]]

\* nodep->addNextHere(newp): newp becomes the next sibling of the child at i.
AddNextHere(children, i, newp) ==
    SubSeq(children, 1, i) \o <<newp>> \o SubSeq(children, i + 1, Len(children))

\* nodep->replaceWith(newp): the list headed by newp takes the place of the
\* child at i.
ReplaceWith(children, i, newlist) ==
    SubSeq(children, 1, i - 1) \o newlist \o SubSeq(children, i + 1, Len(children))

\* ------------------------------------------------------------------- Init
Init ==
    /\ pc = "netlist"
    /\ netlist = <<>>
    /\ orig = <<>>
    /\ lines = <<>>
    /\ diags = {}
    /\ m_primp = 0
    /\ m_isFirstOutput = FALSE
    /\ m_inputVars = <<>>
    /\ m_outputVars = <<>>
    /\ outSlot0 = Null
    /\ m_inputNum = 0
    /\ m_outputNum = 0
    /\ m_ifieldVarp = Null
    /\ m_ofieldVarp = Null
    /\ m_lineStmtp = Null
    /\ m_alwaysp = 0
    /\ ifieldStmtp = <<>>
    /\ ifs = <<>>
    /\ alwaysStmts = <<>>

\* ------------------------------------------------------- visit(AstPrimitive)
EnterPrimitive ==
    /\ pc = "netlist"
    /\ NumNodes < MaxNodes
    /\ pc' = "prim"
    /\ netlist' = Append(netlist, <<>>)
    /\ orig' = Append(orig, <<>>)
    /\ lines' = Append(lines, <<>>)
    /\ alwaysStmts' = Append(alwaysStmts, <<>>)
    /\ m_primp' = Len(netlist) + 1
    /\ m_isFirstOutput' = FALSE
    /\ m_inputVars' = <<>>
    /\ m_outputVars' = <<>>
    /\ UNCHANGED <<diags, outSlot0, m_inputNum, m_outputNum, m_ifieldVarp,
                   m_ofieldVarp, m_lineStmtp, m_alwaysp, ifieldStmtp, ifs>>

LeavePrimitive ==
    /\ pc = "primEnd"
    /\ pc' = "netlist"
    /\ m_primp' = 0
    /\ UNCHANGED <<netlist, orig, lines, diags, m_isFirstOutput, m_inputVars,
                   m_outputVars, outSlot0, m_inputNum, m_outputNum,
                   m_ifieldVarp, m_ofieldVarp, m_lineStmtp, m_alwaysp,
                   ifieldStmtp, ifs, alwaysStmts>>

\* ------------------------------------------------------------ visit(AstVar)
\* push_back on a vector: the element lands in the storage after the last.
PushBack(vec, v) == Append(vec, v)

\* The flag set on the first output whatever came before it.
FirstOutputFlagAnyPosition(flag, inputVars, outputVars) ==
    IF Len(outputVars) = 1 THEN TRUE ELSE flag

\* Lines 74-76: the flag after a push.
FirstOutputFlag(flag, inputVars, outputVars) ==
    IF Len(inputVars) = 0 /\ Len(outputVars) = 1 THEN TRUE ELSE flag

\* A variable outside any primitive (m_primp is null) changes nothing.
VisitVar(kind) ==
    /\ pc \in {"netlist", "prim"}
    /\ IF m_primp = 0
       THEN UNCHANGED vars
       ELSE /\ NumNodes < MaxNodes
            /\ LET p == m_primp
                   v == <<p, Len(orig[p]) + 1>>
                   decl == [type |-> "Var", id |-> v, dir |-> kind.dir,
                            dtype |-> kind.dtype, width |-> 1]
                   isIO == kind.dir # "none"
                   inputVars2 == IF isIO /\ kind.dir = "input"
                                 THEN PushBack(m_inputVars, v) ELSE m_inputVars
                   outputVars2 == IF isIO /\ kind.dir # "input"
                                  THEN PushBack(m_outputVars, v) ELSE m_outputVars
               IN /\ orig' = [orig EXCEPT ![p] = Append(@, decl)]
                  /\ netlist' = [netlist EXCEPT ![p] = Append(@, decl)]
                  /\ m_inputVars' = inputVars2
                  /\ m_outputVars' = outputVars2
                  /\ outSlot0' = IF Len(outputVars2) >= 1 THEN outputVars2[1]
                                 ELSE outSlot0
                  /\ m_isFirstOutput' =
                         IF isIO
                         THEN FirstOutputFlag(m_isFirstOutput, inputVars2, outputVars2)
                         ELSE m_isFirstOutput
            /\ UNCHANGED <<pc, lines, diags, m_primp, m_inputNum, m_outputNum,
                           m_ifieldVarp, m_ofieldVarp, m_lineStmtp, m_alwaysp,
                           ifieldStmtp, ifs, alwaysStmts>>

\* ------------------------------------------------------ visit(AstUdpTable)
\* Lines 86-89.  m_outputVars.back() of an empty vector is an out-of-range
\* read: the diagnostic lands on whatever is found there.
OutputCountDiag(outputVars) ==
    IF Len(outputVars) # 1
    THEN {[code |-> "OUTCOUNT",
           at |-> IF Len(outputVars) = 0 THEN Garbage
                  ELSE outputVars[Len(outputVars)]]}
    ELSE {}

\* Lines 90-92.
PlacementDiag(isFirstOutput, inputVars, outputNum) ==
    IF ~isFirstOutput /\ outputNum # 0
    THEN {[code |-> "FIRSTOUT",
           at |-> IF Len(inputVars) = 0 THEN Garbage ELSE inputVars[1]]}
    ELSE {}

\* Line 93.  m_outputVars[0] of an empty vector reads the storage clear()
\* left behind: the first output of an earlier primitive, or nothing at all.
OfieldVar(outputVars, slot0) ==
    IF Len(outputVars) = 0 THEN slot0 ELSE outputVars[1]

\* The diagnostic raised for every basic data type, logic or not.
SequentialDiagAnyBasic(ofieldVarp) ==
    IF VarDecl(ofieldVarp).dtype # "other"
    THEN {[code |-> "SEQUENTIAL", at |-> ofieldVarp]}
    ELSE {}

\* Lines 94-97.
SequentialDiag(ofieldVarp) ==
    IF VarDecl(ofieldVarp).dtype # "other" /\ VarDecl(ofieldVarp).dtype = "logic"
    THEN {[code |-> "SEQUENTIAL", at |-> ofieldVarp]}
    ELSE {}

\* The field variable linked after the first input port.
IfieldAnchorFront(inputVars) == inputVars[1]

\* Line 102: the variable the field variable is linked after.
IfieldAnchor(inputVars) == inputVars[Len(inputVars)]

VarRef(varp) == [op |-> "VarRef", varp |-> varp]

\* The operands of the concatenation exchanged.
ConcatStepSwapped(varp, contactp) ==
    [op |-> "Concat", lhsp |-> contactp, rhsp |-> VarRef(varp)]

\* Line 108: one turn of the loop.  AstConcat{fl, lhsp, rhsp}.
ConcatStep(varp, contactp) ==
    [op |-> "Concat", lhsp |-> VarRef(varp), rhsp |-> contactp]

\* Lines 104-109: itr is the 1-based position of the iterator.
RECURSIVE ConcatLoop(_, _, _)
ConcatLoop(inputVars, itr, contactp) ==
    IF itr + 1 > Len(inputVars) THEN contactp
    ELSE ConcatLoop(inputVars, itr + 1, ConcatStep(inputVars[itr + 1], contactp))

Contact(inputVars) == ConcatLoop(inputVars, 1, VarRef(inputVars[1]))

\* ub is the outcome of the out-of-range reads of this visit: "fault" (the
\* read or the use of what was read faults) or "stale" (it returns what the
\* storage holds).  With no input port, back() at line 102, *itr at line 106
\* and the walk of ++itr past end() at line 107 leave no other outcome than
\* a fault.
VisitUdpTable(ub) ==
    /\ pc = "prim"
    /\ LET p == m_primp
           table == [type |-> "UdpTable", id |-> p]
           inputNum == Len(m_inputVars)
           outputNum == Len(m_outputVars)
           d1 == OutputCountDiag(m_outputVars)
           fault1 == outputNum = 0 /\ ub = "fault"
           d2 == PlacementDiag(m_isFirstOutput, m_inputVars, outputNum)
           fault2 == d2 # {} /\ inputNum = 0 /\ ub = "fault"
           ofield == OfieldVar(m_outputVars, outSlot0)
           fault3 == ofield = Null
           d3 == IF fault3 THEN {} ELSE SequentialDiag(ofield)
           fault4 == inputNum = 0
           ifield == <<p, 0>>
           ifieldDecl == [type |-> "Var", id |-> ifield, dir |-> "none",
                          dtype |-> "bit", width |-> inputNum]
       IN /\ orig' = [orig EXCEPT ![p] = Append(@, table)]
          /\ m_lineStmtp' = Null
          /\ m_inputNum' = inputNum
          /\ m_outputNum' = outputNum
          /\ IF fault1
             THEN /\ pc' = "crashed"
                  /\ netlist' = [netlist EXCEPT ![p] = Append(@, table)]
                  /\ UNCHANGED <<diags, m_ofieldVarp, m_ifieldVarp, m_alwaysp,
                                 ifieldStmtp>>
             ELSE IF fault2
             THEN /\ pc' = "crashed"
                  /\ diags' = diags \cup d1
                  /\ netlist' = [netlist EXCEPT ![p] = Append(@, table)]
                  /\ UNCHANGED <<m_ofieldVarp, m_ifieldVarp, m_alwaysp, ifieldStmtp>>
             ELSE IF fault3
             THEN /\ pc' = "crashed"
                  /\ diags' = diags \cup d1 \cup d2
                  /\ m_ofieldVarp' = ofield
                  /\ netlist' = [netlist EXCEPT ![p] = Append(@, table)]
                  /\ UNCHANGED <<m_ifieldVarp, m_alwaysp, ifieldStmtp>>
             ELSE IF fault4
             THEN /\ pc' = "crashed"
                  /\ diags' = diags \cup d1 \cup d2 \cup d3
                  /\ m_ofieldVarp' = ofield
                  /\ m_ifieldVarp' = ifield
                  /\ netlist' = [netlist EXCEPT ![p] = Append(@, table)]
                  /\ UNCHANGED <<m_alwaysp, ifieldStmtp>>
             ELSE /\ pc' = "table"
                  /\ diags' = diags \cup d1 \cup d2 \cup d3
                  /\ m_ofieldVarp' = ofield
                  /\ m_ifieldVarp' = ifield
                  /\ netlist' =
                       [netlist EXCEPT ![p] =
                           Append(AddNextHere(@, PosOf(@, "Var", IfieldAnchor(m_inputVars)),
                                              ifieldDecl),
                                  table)]
                  /\ ifieldStmtp' = [type |-> "AssignW", id |-> p, lhsp |-> ifield,
                                     rhsp |-> Contact(m_inputVars)]
                  /\ m_alwaysp' = p
    /\ UNCHANGED <<lines, m_primp, m_isFirstOutput, m_inputVars, m_outputVars,
                   outSlot0, ifs, alwaysStmts>>

\* Lines 116-117: the table gives way to the assignment and the process
\* linked after it.
LeaveUdpTable ==
    /\ pc = "table"
    /\ pc' = "primEnd"
    /\ LET p == m_primp
       IN netlist' = [netlist EXCEPT ![p] =
              ReplaceWith(@, PosOf(@, "UdpTable", p),
                          <<ifieldStmtp, [type |-> "Always", id |-> m_alwaysp]>>)]
    /\ ifieldStmtp' = <<>>
    /\ UNCHANGED <<orig, lines, diags, m_primp, m_isFirstOutput, m_inputVars,
                   m_outputVars, outSlot0, m_inputNum, m_outputNum, m_ifieldVarp,
                   m_ofieldVarp, m_lineStmtp, m_alwaysp, ifs, alwaysStmts>>

\* -------------------------------------------------- visit(AstUdpTableLine)
\* name().substr(0, 1)
Substr01(name) == SubSeq(name, 1, 1)

\* V3Number{nodep, width}: width bits, all zero.  Bit b is element b + 1.
NewNumber(width) == [i \in 1..width |-> 0]

\* V3Number::setBit: a bit at or above the width is dropped.
SetBit(num, bit, value) ==
    IF bit >= Len(num) THEN num ELSE [num EXCEPT ![bit + 1] = value]

\* A '0' symbol left out of the mask.
MaskBitOnesOnly(bitval) == IF bitval = <<"1">> THEN 1 ELSE 0
\* A '1' symbol compared against 0.
CmpBitAlwaysZero(bitval) == 0

\* Lines 152-161: the mask and compare bits of one input symbol.
MaskBit(bitval) == IF bitval = <<"0">> THEN 1 ELSE IF bitval = <<"1">> THEN 1 ELSE 0
CmpBit(bitval) == IF bitval = <<"0">> THEN 0 ELSE IF bitval = <<"1">> THEN 1 ELSE 0

\* Lines 149-163: the loop over the input symbols of the row.
RECURSIVE LineNums(_, _, _, _)
LineNums(ifieldNodes, bitIndex, maskNum, cmpNum) ==
    IF bitIndex >= Len(ifieldNodes)
    THEN [mask |-> maskNum, cmp |-> cmpNum]
    ELSE LET bitval == Substr01(ifieldNodes[bitIndex + 1])
         IN LineNums(ifieldNodes, bitIndex + 1,
                     SetBit(maskNum, bitIndex, MaskBit(bitval)),
                     SetBit(cmpNum, bitIndex, CmpBit(bitval)))

\* Lines 170-179: the value of the output symbol.  The parser gives every
\* line one output symbol, so ofieldNodes[0] exists.
Onum(ofieldNodes) ==
    LET bitval == Substr01(ofieldNodes[1])
    IN IF bitval = <<"0">> THEN SetBit(NewNumber(1), 0, 0)
       ELSE IF bitval = <<"1">> THEN SetBit(NewNumber(1), 0, 1)
       ELSE SetBit(NewNumber(1), 0, BitX)

\* Lines 131-134.
InputValDiag(ifieldNodes, inputNum, nodep) ==
    IF Len(ifieldNodes) # inputNum
    THEN {[code |-> "INPUTVAL", at |-> nodep]}
    ELSE {}

\* The new conditional put in front of the chain, the old chain as its else.
ChainPrepend(ifsMap, body, lineStmtp, id, ifStmt) ==
    [ifs |-> (id :> [ifStmt EXCEPT !.elsesp = body]) @@ ifsMap,
     body |-> <<id>>,
     lineStmtp |-> id]

\* Every conditional added to the body of the process, none as an else.
ChainFlat(ifsMap, body, lineStmtp, id, ifStmt) ==
    [ifs |-> (id :> ifStmt) @@ ifsMap,
     body |-> Append(body, id),
     lineStmtp |-> id]

\* Lines 184-190: the new conditional becomes the body of the process or the
\* else branch of the tail, and then the tail.  addStmtsp and addElsesp
\* append to the list they are given.
Chain(ifsMap, body, lineStmtp, id, ifStmt) ==
    IF lineStmtp = Null
    THEN [ifs |-> (id :> ifStmt) @@ ifsMap,
          body |-> Append(body, id),
          lineStmtp |-> id]
    ELSE [ifs |-> (id :> ifStmt) @@
                  [ifsMap EXCEPT ![lineStmtp].elsesp = Append(@, id)],
          body |-> body,
          lineStmtp |-> id]

VisitUdpTableLine(row) ==
    /\ pc = "table"
    /\ NumNodes + 1 + Len(row.ifield) <= MaxNodes
    /\ LET p == m_primp
           id == <<p, Len(lines[p]) + 1>>
           nums == LineNums(row.ifield, 0, NewNumber(m_inputNum), NewNumber(m_inputNum))
           condExprp == [mask |-> nums.mask, varp |-> m_ifieldVarp, cmp |-> nums.cmp]
           thenStmtp == [lhsp |-> m_ofieldVarp, rhsp |-> Onum(row.ofield)]
           ifStmtp == [condp |-> condExprp, thensp |-> <<thenStmtp>>, elsesp |-> <<>>]
           c == Chain(ifs, alwaysStmts[m_alwaysp], m_lineStmtp, id, ifStmtp)
       IN /\ lines' = [lines EXCEPT ![p] = Append(@, row)]
          /\ diags' = diags \cup InputValDiag(row.ifield, m_inputNum, id)
          /\ ifs' = c.ifs
          /\ alwaysStmts' = [alwaysStmts EXCEPT ![m_alwaysp] = c.body]
          /\ m_lineStmtp' = c.lineStmtp
    /\ UNCHANGED <<pc, netlist, orig, m_primp, m_isFirstOutput, m_inputVars,
                   m_outputVars, outSlot0, m_inputNum, m_outputNum, m_ifieldVarp,
                   m_ofieldVarp, m_alwaysp, ifieldStmtp>>

\* ------------------------------------------------------------ udpResolve
\* The constructor's iterate(nodep) returns: the traversal is over.
Finish ==
    /\ pc = "netlist"
    /\ pc' = "done"
    /\ UNCHANGED <<netlist, orig, lines, diags, m_primp, m_isFirstOutput,
                   m_inputVars, m_outputVars, outSlot0, m_inputNum, m_outputNum,
                   m_ifieldVarp, m_ofieldVarp, m_lineStmtp, m_alwaysp,
                   ifieldStmtp, ifs, alwaysStmts>>

\* The rows a table can hold: up to maxSyms input symbols, one output symbol.
Rows(maxSyms) ==
    {[ifield |-> i, ofield |-> <<o>>] :
        i \in UNION {[1..k -> InputSyms] : k \in 0..maxSyms}, o \in OutputSyms}

Next ==
    \/ EnterPrimitive
    \/ \E kind \in VarKinds : VisitVar(kind)
    \/ \E ub \in {"fault", "stale"} : VisitUdpTable(ub)
    \/ \E row \in Rows(MaxNodes - NumNodes - 1) : VisitUdpTableLine(row)
    \/ LeaveUdpTable
    \/ LeavePrimitive
    \/ Finish

Spec == Init /\ [][Next]_vars

\* ------------------------------------------- meaning of the synthesized tree
\* The bits of an expression over one-bit ports, least significant first.
\* {lhsp, rhsp}: rhsp holds the low bits.
RECURSIVE ExprBits(_, _)
ExprBits(expr, env) ==
    IF expr.op = "VarRef" THEN <<env[expr.varp]>>
    ELSE ExprBits(expr.rhsp, env) \o ExprBits(expr.lhsp, env)

\* (mask & field) == cmp, over numbers of one width.
CondHolds(condp, field) ==
    \A b \in 1..Len(condp.mask) :
        (IF condp.mask[b] = 1 /\ field[b] = 1 THEN 1 ELSE 0) = condp.cmp[b]

\* One evaluation of a statement list: the assignments performed, in order.
RECURSIVE ExecStmts(_, _)
ExecStmts(ids, field) ==
    IF ids = <<>> THEN <<>>
    ELSE LET ifp == ifs[Head(ids)]
         IN (IF CondHolds(ifp.condp, field)
             THEN [k \in 1..Len(ifp.thensp) |->
                      [ifp |-> Head(ids), lhsp |-> ifp.thensp[k].lhsp,
                       rhsp |-> ifp.thensp[k].rhsp]]
             ELSE ExecStmts(ifp.elsesp, field))
            \o ExecStmts(Tail(ids), field)

\* --------------------------------------------------- what the claims speak of
IsInput(c) == c.type = "Var" /\ c.dir = "input"
IsOutput(c) == c.type = "Var" /\ c.dir = "output"

\* The ids of the children that satisfy Test, in declaration order.
SelectIds(children, Test(_)) ==
    LET sel == SelectSeq(children, Test)
    IN [i \in 1..Len(sel) |-> sel[i].id]

IsIO(c) == IsInput(c) \/ IsOutput(c)
Inputs(p) == SelectIds(orig[p], IsInput)
Outputs(p) == SelectIds(orig[p], IsOutput)
IOs(p) == SelectIds(orig[p], IsIO)

Prims == 1..Len(orig)
\* The table of p has been reached.
TableVisited(p) == \E i \in 1..Len(orig[p]) : orig[p][i].type = "UdpTable"
\* The table of p was lowered: its visit did not fault.
Synthesized(p) == TableVisited(p) /\ ~(pc = "crashed" /\ p = Len(orig))
\* The visit of p's table is over.
TableDone(p) == Synthesized(p) /\ ~(pc = "table" /\ p = Len(orig))

Fields(n) == [1..n -> {0, 1}]
Envs(p) == [{Inputs(p)[i] : i \in 1..Len(Inputs(p))} -> {0, 1}]

\* The test of row j of p as synthesized, on a value of the field.
RowTest(p, j, field) == CondHolds(ifs[<<p, j>>].condp, field)
Matching(p, field) == {j \in 1..Len(lines[p]) : RowTest(p, j, field)}
Min(S) == CHOOSE x \in S : \A y \in S : x <= y

\* The value a row's output symbol stands for.
RowOut(row) ==
    IF row.ofield[1] = <<"0">> THEN 0 ELSE IF row.ofield[1] = <<"1">> THEN 1 ELSE BitX

\* The assignment statement and the field of p, during and after the visit.
FieldAssign(p) ==
    IF pc = "table" /\ p = Len(orig) THEN ifieldStmtp
    ELSE netlist[p][PosOf(netlist[p], "AssignW", p)]

\* C1: first-match priority. For every lowered table and every value of the
\* field whose test succeeds for two or more rows, one evaluation of the
\* process performs exactly one assignment: the one of the earliest matching
\* row, with that row's output value.
C1_FirstMatch ==
    \A p \in Prims : Synthesized(p) =>
        \A field \in Fields(Len(Inputs(p))) :
            LET M == Matching(p, field)
            IN Cardinality(M) >= 2 =>
                 LET done == ExecStmts(alwaysStmts[p], field)
                 IN /\ Len(done) = 1
                    /\ done[1].ifp = <<p, Min(M)>>
                    /\ done[1].rhsp = <<RowOut(lines[p][Min(M)])>>

C1_Witness ==
    \E p \in Prims : Synthesized(p) /\ TableDone(p) /\
        \E field \in Fields(Len(Inputs(p))) :
            /\ Cardinality(Matching(p, field)) >= 2
            /\ RowOut(lines[p][1]) # RowOut(lines[p][2])

\* The test a row stands for, read off its symbols: every '0' or '1' symbol
\* at a position below the field's width equals the field's bit there.
SymValue(sym) == IF sym = <<"1">> THEN 1 ELSE 0
IsLiteral(sym) == sym \in {<<"0">>, <<"1">>}
RowAccepts(row, field) ==
    \A i \in 0..(Len(field) - 1) :
        (i < Len(row.ifield) /\ IsLiteral(row.ifield[i + 1]))
            => field[i + 1] = SymValue(row.ifield[i + 1])

\* C2: no-match retention. For every lowered table and every value of the
\* field that no row accepts, one evaluation of the process performs no
\* assignment; the conditional of the last row has no else branch, and the
\* body of the process is the first conditional and nothing else.
C2_NoMatchRetention ==
    \A p \in Prims : Synthesized(p) =>
        LET k == Len(lines[p])
        IN /\ \A field \in Fields(Len(Inputs(p))) :
                 (\A j \in 1..k : ~RowAccepts(lines[p][j], field))
                     => ExecStmts(alwaysStmts[p], field) = <<>>
           /\ k >= 1 => ifs[<<p, k>>].elsesp = <<>>
           /\ alwaysStmts[p] = IF k = 0 THEN <<>> ELSE << <<p, 1>> >>

C2_Witness ==
    \E p \in Prims : TableDone(p) /\ Len(lines[p]) = 2 /\
        \E field \in Fields(Len(Inputs(p))) :
            /\ \A j \in 1..2 : ~RowAccepts(lines[p][j], field)
            /\ \E g \in Fields(Len(Inputs(p))) : RowAccepts(lines[p][2], g)

\* The output-count diagnostic of p: on its last output port, or on what an
\* out-of-range read returned when it has none.
OutputCountRaised(p) ==
    \E d \in diags : d.code = "OUTCOUNT" /\
        (d.at = Garbage \/ (Outputs(p) # <<>> /\ d.at = Outputs(p)[Len(Outputs(p))]))

\* C3: a primitive with no output port or with two or more: once its table
\* has been reached the output-count diagnostic is in the sink and the pass
\* has not stopped short of the end of the traversal.
C3_WrongOutputCountRejected ==
    \A p \in Prims : (TableVisited(p) /\ Len(Outputs(p)) # 1) =>
        /\ OutputCountRaised(p)
        /\ pc # "crashed"

\* The diagnostics raised for primitive p: on its variables and table lines.
DiagsOf(p) == {d \in diags : d.at[1] = p}

WellFormedPorts(p) ==
    /\ Len(Outputs(p)) = 1
    /\ IOs(p)[1] = Outputs(p)[1]
    /\ VarDecl(Outputs(p)[1]).dtype # "logic"

\* C4 as claimed: one output port, declared first, not logic-valued: whatever
\* the input ports and the rows, the table is lowered and no diagnostic is
\* raised.
C4_AnyTableClean ==
    \A p \in Prims : (TableVisited(p) /\ WellFormedPorts(p)) =>
        /\ Synthesized(p)
        /\ DiagsOf(p) = {}

\* C4 as amended: one output port, declared first, not logic-valued, at least
\* one input port, and every row with as many input symbols as there are
\* input ports: the table is lowered and no diagnostic is raised.
C4_WellFormedClean ==
    \A p \in Prims :
        (/\ TableVisited(p)
         /\ WellFormedPorts(p)
         /\ Len(Inputs(p)) >= 1
         /\ \A j \in 1..Len(lines[p]) : Len(lines[p][j].ifield) = Len(Inputs(p)))
        => /\ Synthesized(p)
           /\ DiagsOf(p) = {}

C4_Witness ==
    \E p \in Prims :
        /\ TableDone(p)
        /\ WellFormedPorts(p)
        /\ Len(Inputs(p)) >= 1
        /\ Len(lines[p]) >= 1
        /\ \A j \in 1..Len(lines[p]) : Len(lines[p][j].ifield) = Len(Inputs(p))
        /\ diags = {}

C6_FieldLayout ==
    \A p \in Prims : (Synthesized(p) /\ Len(Inputs(p)) >= 1) =>
        LET n == Len(Inputs(p))
            assign == FieldAssign(p)
        IN /\ assign.lhsp = <<p, 0>>
           /\ \A env \in Envs(p) :
                LET field == ExprBits(assign.rhsp, env)
                IN /\ field = [i \in 1..n |-> env[Inputs(p)[i]]]
                   /\ \A j \in 1..Len(lines[p]) :
                        Len(lines[p][j].ifield) = n =>
                          (RowTest(p, j, field) <=>
                             \A i \in 1..n :
                                IsLiteral(lines[p][j].ifield[i]) =>
                                   SymValue(lines[p][j].ifield[i]) = env[Inputs(p)[i]])

\* Two inputs and a row that tells them apart.
C6_Witness ==
    \E p \in Prims : TableDone(p) /\ Len(Inputs(p)) = 2 /\ Len(lines[p]) >= 1
        /\ lines[p][1].ifield = << <<"0">>, <<"1">> >>

\* What the children of p must be once its table is lowered: the declared
\* children in their order, the field variable right after the last input
\* port, and the assignment followed by the process where the table was.
LastInputPos(p) ==
    CHOOSE i \in 1..Len(orig[p]) :
        /\ IsInput(orig[p][i])
        /\ \A k \in (i + 1)..Len(orig[p]) : ~IsInput(orig[p][k])
ExpectedShape(p) ==
    LET o == orig[p]
        t == PosOf(o, "UdpTable", p)
        l == LastInputPos(p)
    IN SubSeq(o, 1, l)
       \o << [type |-> "Var", id |-> <<p, 0>>, dir |-> "none", dtype |-> "bit",
              width |-> Len(Inputs(p))] >>
       \o SubSeq(o, l + 1, t - 1)
       \o << [type |-> "AssignW", id |-> p, lhsp |-> <<p, 0>>,
              rhsp |-> FieldAssign(p).rhsp],
             [type |-> "Always", id |-> p] >>
       \o SubSeq(o, t + 1, Len(o))

\* C7: once the pass has visited a primitive with a table, the primitive
\* holds no table node; where the table was there is one field assignment
\* immediately followed by one process; one new field variable of width n
\* sits immediately after the last input port; every other child is
\* unchanged and in its place.
C7_TableReplaced ==
    \A p \in Prims : TableDone(p) =>
        /\ netlist[p] = ExpectedShape(p)
        /\ \A i \in 1..Len(netlist[p]) : netlist[p][i].type # "UdpTable"

\* A primitive declaring an output, an input and a local, in this order.
C7_Witness ==
    \E p \in Prims : TableDone(p) /\ Len(orig[p]) = 4
        /\ IsOutput(orig[p][1]) /\ IsInput(orig[p][2]) /\ ~IsIO(orig[p][3])

\* C8: the pass-local state used for a primitive holds that primitive's data
\* only: the classified ports, the field and output variables and the chain
\* tail all belong to the primitive under traversal, and the conditionals of
\* a table assign a variable of the table's own primitive.
C8_StateScopedToPrimitive ==
    /\ pc \in {"prim", "table", "primEnd"} =>
          /\ \A i \in 1..Len(m_inputVars) : m_inputVars[i][1] = m_primp
          /\ \A i \in 1..Len(m_outputVars) : m_outputVars[i][1] = m_primp
          /\ m_isFirstOutput =>
                (Outputs(m_primp) # <<>> /\ IOs(m_primp)[1] = Outputs(m_primp)[1])
    /\ pc \in {"table", "primEnd"} =>
          /\ m_ofieldVarp[1] = m_primp
          /\ m_ifieldVarp[1] = m_primp
          /\ m_lineStmtp # Null => m_lineStmtp[1] = m_primp
    /\ \A p \in Prims : Synthesized(p) =>
          /\ \A j \in 1..Len(lines[p]) :
                ifs[<<p, j>>].thensp[1].lhsp[1] = p
          /\ Len(lines[p]) >= 1 => alwaysStmts[p][1] = <<p, 1>>

\* The mask, compare and output numbers a row must yield, read off its symbols.
ExpectedCond(row, n) ==
    [mask |-> [i \in 1..n |->
                  IF i <= Len(row.ifield) /\ IsLiteral(row.ifield[i]) THEN 1 ELSE 0],
     cmp |-> [i \in 1..n |->
                  IF i <= Len(row.ifield) /\ IsLiteral(row.ifield[i])
                  THEN SymValue(row.ifield[i]) ELSE 0]]

\* C9: every row yields exactly one conditional, a row of the wrong length
\* (which raises the input-count diagnostic) included: for a lowered table of
\* k rows there are exactly k conditionals, the body of the process is the
\* first, the j-th is built from the j-th declared row, each but the last has
\* the next one as the one statement of its else branch, and the last has none.
C9_OneConditionalPerRow ==
    \A p \in Prims : Synthesized(p) =>
        LET k == Len(lines[p])
            n == Len(Inputs(p))
        IN /\ {id \in DOMAIN ifs : id[1] = p} = {<<p, j>> : j \in 1..k}
           /\ alwaysStmts[p] = IF k = 0 THEN <<>> ELSE << <<p, 1>> >>
           /\ \A j \in 1..k :
                LET ifp == ifs[<<p, j>>]
                    row == lines[p][j]
                IN /\ ifp.condp.mask = ExpectedCond(row, n).mask
                   /\ ifp.condp.cmp = ExpectedCond(row, n).cmp
                   /\ ifp.condp.varp = <<p, 0>>
                   /\ Len(ifp.thensp) = 1
                   /\ ifp.thensp[1].rhsp = <<RowOut(row)>>
                   /\ ifp.elsesp = IF j < k THEN << <<p, j + 1>> >> ELSE <<>>
                   /\ ([code |-> "INPUTVAL", at |-> <<p, j>>] \in diags
                          <=> Len(row.ifield) # n)

\* Two rows, the first of the wrong length.
C9_Witness ==
    \E p \in Prims : TableDone(p) /\ Len(lines[p]) = 2
        /\ Len(lines[p][1].ifield) # Len(Inputs(p))
        /\ Len(lines[p][2].ifield) = Len(Inputs(p))

\* The placement rule is broken: an output exists and the first I/O port in
\* declaration order is an input.
PlacementExpected(p) ==
    /\ Len(Outputs(p)) >= 1
    /\ IOs(p)[1] # Outputs(p)[1]

\* C10: once the table of a primitive has been reached, the placement
\* diagnostic has been raised for it exactly when it has at least one output
\* port and its first I/O port in declaration order is no output, whatever
\* locals are declared among the ports; and every placement diagnostic in the
\* sink is attached to the first input port of such a primitive, never to the
\* result of an out-of-range read.
C10_PlacementDiagnostic ==
    /\ \A p \in Prims : TableVisited(p) =>
          ((\E d \in diags : d.code = "FIRSTOUT" /\ d.at[1] = p)
              <=> PlacementExpected(p))
    /\ \A d \in diags : d.code = "FIRSTOUT" =>
          \E p \in Prims :
              /\ TableVisited(p)
              /\ Inputs(p) # <<>>
              /\ d.at = Inputs(p)[1]

\* A local, then an input, then an output: the diagnostic is raised.
C10_Witness ==
    \E p \in Prims : TableVisited(p) /\ PlacementExpected(p)
        /\ ~IsIO(orig[p][1]) /\ IsInput(orig[p][2])
        /\ [code |-> "FIRSTOUT", at |-> <<p, 2>>] \in diags

====
